---- MODULE Spec2Model ----
(***************************************************************************)
(* Model of visheratin/conv-tree: the adaptive (density guided) ConvTree   *)
(* and the uniform QuadTree.                                               *)
(*                                                                         *)
(* Trees are nested records that keep the fields of the Go structs; a nil  *)
(* child pointer is the record Nil.  Node IDs (uuid) are the numbers of a   *)
(* counter: the n-th identifier drawn is n.                                *)
(*                                                                         *)
(* Arithmetic.  Coordinates are float64 in the source.  The inputs of the  *)
(* model are integers chosen so that every division the code performs on   *)
(* coordinates (width / gridSize, width / 2) is exact, so the integers     *)
(* here are the values the floats take.  Density grids are kept as integer *)
(* numerators over one common denominator (field den); normalizeGrid       *)
(* changes the denominator, convolve multiplies by the kernel (stored in   *)
(* halves) and comparisons are made by cross multiplication: rational      *)
(* arithmetic without rounding.  0/0 is NaN, every comparison with NaN is  *)
(* false.                                                                  *)
(***************************************************************************)
EXTENDS Integers, Sequences, FiniteSets, TLC

Nil == [IsNil |-> TRUE]

\* the outcome of a call that ends in a Go runtime panic
Panic == [IsPanic |-> TRUE]

Abs(a) == IF a < 0 THEN 0 - a ELSE a

\* float64 division a / b of the model's integer inputs: defined only when it
\* is exact (b # 0 and b divides a)
Div(a, b) == CHOOSE q \in {a \div b} : q * b = a

RECURSIVE SumSeq(_)
SumSeq(s) == IF s = <<>> THEN 0 ELSE Head(s) + SumSeq(Tail(s))

RECURSIVE SumSet(_, _)
SumSet(f, S) ==
    IF S = {} THEN 0
    ELSE LET e == CHOOSE e \in S : TRUE IN f[e] + SumSet(f, S \ {e})

(***************************************************************************)
(* Points                                                                  *)
(***************************************************************************)
\* Point{X, Y, Weight, Content}; Content is the []string payload, <<>> for
\* a nil payload
Point(x, y, w, c) == [X |-> x, Y |-> y, Weight |-> w, Content |-> c]

Coord(x, y) == [X |-> x, Y |-> y]

TotalWeight(points) == SumSeq([i \in 1..Len(points) |-> points[i].Weight])

(***************************************************************************)
(* Grid and convolution engine                                             *)
(***************************************************************************)
\* the literal kernel of NewConvTree, {0.5, 1.0, 0.5} rows, stored in halves
KernelDen == 2
DefaultKernel ==
    [x \in 0..2 |-> [y \in 0..2 |-> IF x = 1 /\ y = 1 THEN 2 ELSE 1]]

KernelSize(kernel) == Cardinality(DOMAIN kernel)

\* a grid of n x n cells: value of cell (i, j) is cells[i][j] / den, or NaN
MkGrid(n, cells, den, nan) == [n |-> n, cells |-> cells, den |-> den, nan |-> nan]

GridMax(grid) ==
    LET vals == {grid.cells[i][j] : i \in 0..(grid.n - 1), j \in 0..(grid.n - 1)}
    IN CHOOSE m \in vals : \A v \in vals : v <= m

\* normalizeGrid: divide every cell by the maximum.  An empty grid is returned
\* as it is; a maximum of zero makes every cell 0/0 = NaN, and NaN stays NaN.
normalizeGrid(grid) ==
    IF grid.n = 0 THEN grid
    ELSE IF grid.nan \/ GridMax(grid) = 0
         THEN MkGrid(grid.n, grid.cells, 1, TRUE)
         ELSE MkGrid(grid.n, grid.cells, GridMax(grid), FALSE)

\* procGrid of convolve for padding = 1: the grid inside a border of zeros
procGrid(grid, a, b) ==
    IF a >= 1 /\ a <= grid.n /\ b >= 1 /\ b <= grid.n
    THEN grid.cells[a - 1][b - 1] ELSE 0

\* convolve: [err |-> TRUE] for the four rejected inputs, Panic when the
\* height check reads grid[0] of an empty grid or the padding loop indexes
\* grid[i-padding] below zero (padding > 1), else the cross-correlation of
\* the zero padded grid with the kernel
convolve(grid, kernel, stride, padding) ==
    LET kernelSize == KernelSize(kernel)
        procLen == grid.n + 2 * padding
        resultWidth == ((grid.n - kernelSize + 2 * padding) \div stride) + 1
        cell(i, j) ==
            LET pos == {<<x, y>> \in (0..(kernelSize - 1)) \X (0..(kernelSize - 1)) :
                          /\ stride * i + x < procLen
                          /\ stride * j + y < procLen}
                term == [p \in pos |->
                          procGrid(grid, stride * i + p[1], stride * j + p[2])
                            * kernel[p[1]][p[2]]]
            IN SumSet(term, pos)
    IN IF stride < 1 \/ padding < 1 \/ grid.n < kernelSize
       THEN [err |-> TRUE]
       ELSE IF grid.n = 0 \/ padding > 1
       THEN Panic
       ELSE [err |-> FALSE,
             grid |-> MkGrid(resultWidth,
                             [i \in 0..(resultWidth - 1) |->
                                [j \in 0..(resultWidth - 1) |-> cell(i, j)]],
                             grid.den * KernelDen,
                             grid.nan)]

\* the convolution passes of split: up to convNum times convolve(1, 1) then
\* normalizeGrid, stopping at the first error
RECURSIVE convPasses(_, _, _)
convPasses(grid, kernel, convNum) ==
    IF convNum <= 0 THEN grid
    ELSE LET r == convolve(grid, kernel, 1, 1)
         IN IF r = Panic \/ r.err THEN grid
            ELSE convPasses(normalizeGrid(r.grid), kernel, convNum - 1)

(***************************************************************************)
(* Split-point search                                                      *)
(***************************************************************************)
\* threshold := 0.8
ThresholdNum == 4
ThresholdDen == 5

\* a float value num / den; nan for 0/0
Val(num, den) == [num |-> num, den |-> IF den = 0 THEN 1 ELSE den, nan |-> den = 0]

\* grid[i][j] > v
CellGreater(grid, i, j, v) ==
    /\ ~grid.nan
    /\ ~v.nan
    /\ grid.cells[i][j] * v.den > v.num * grid.den

\* mean of a slice of cell values given by the sum of their numerators and
\* their number: sum / float64(len(in)), 0/0 for an empty slice
mean(sum, count, den) == Val(sum, count * den)

\* the first loop of getSplitPoint: the first cell in row-major order that
\* holds the largest value above 0.0; (0, 0) with maxValue 0.0 when no cell
\* is greater than 0.0
MaxCell(grid) ==
    IF grid.n = 0 \/ grid.nan \/ GridMax(grid) <= 0
    THEN [maxX |-> 0, maxY |-> 0, maxValue |-> 0]
    ELSE LET m == GridMax(grid)
             at == {p \in (0..(grid.n - 1)) \X (0..(grid.n - 1)) : grid.cells[p[1]][p[2]] = m}
             first == CHOOSE p \in at :
                         \A q \in at : p[1] < q[1] \/ (p[1] = q[1] /\ p[2] <= q[2])
         IN [maxX |-> first[1], maxY |-> first[2], maxValue |-> m]

\* one pass of the ring search of getSplitPoint at offset counter with the
\* running threshold splitValue: the x and y it leaves, itemFound and vals
RingPass(grid, maxX, maxY, counter, splitValue) ==
    LET n == grid.n
        span(c) == {j \in (c - counter)..(c + counter) : j >= 0 /\ j < n}
        left == IF maxX - counter >= 0
                THEN {j \in span(maxY) : CellGreater(grid, maxX - counter, j, splitValue)}
                ELSE {}
        right == IF maxX + counter < n
                 THEN {j \in span(maxY) : CellGreater(grid, maxX + counter, j, splitValue)}
                 ELSE {}
        low == IF maxY - counter >= 0
               THEN {j \in span(maxX) : CellGreater(grid, j, maxY - counter, splitValue)}
               ELSE {}
        high == IF maxY + counter < n
                THEN {j \in span(maxX) : CellGreater(grid, j, maxY + counter, splitValue)}
                ELSE {}
        inner(S) == {j \in S : j # maxX - counter /\ j # maxX + counter}
        x1 == IF left # {} THEN maxX - counter ELSE 0
        x2 == IF right # {} /\ Abs(x1 - (n \div 2)) > Abs((maxX + counter) - (n \div 2))
              THEN maxX + counter ELSE x1
        y1 == IF low # {} THEN maxY - counter ELSE 0
        y2 == IF high # {} /\ Abs(y1 - (n \div 2)) > Abs((maxY + counter) - (n \div 2))
              THEN maxY + counter ELSE y1
        sum == SumSet([j \in left |-> grid.cells[maxX - counter][j]], left)
               + SumSet([j \in right |-> grid.cells[maxX + counter][j]], right)
               + SumSet([j \in inner(low) |-> grid.cells[j][maxY - counter]], inner(low))
               + SumSet([j \in inner(high) |-> grid.cells[j][maxY + counter]], inner(high))
        count == Cardinality(left) + Cardinality(right)
                 + Cardinality(inner(low)) + Cardinality(inner(high))
    IN [itemFound |-> left # {} \/ right # {} \/ low # {} \/ high # {},
        x |-> x2, y |-> y2, sum |-> sum, count |-> count]

\* the final step of getSplitPoint: one further away from the maximum
Nudge(split, max) == IF split > max THEN split + 1 ELSE split - 1

\* the for loop of getSplitPoint, and the final step when it ends
RECURSIVE RingSearch(_, _, _, _, _, _, _)
RingSearch(grid, maxX, maxY, counter, splitValue, splitX, splitY) ==
    LET r == RingPass(grid, maxX, maxY, counter, splitValue)
    IN IF ~r.itemFound
       THEN [x |-> Nudge(splitX, maxX), y |-> Nudge(splitY, maxY)]
       ELSE RingSearch(grid, maxX, maxY, counter + 1,
                       LET m == mean(r.sum, r.count, grid.den)
                       IN Val(m.num * ThresholdNum,
                              IF m.nan THEN 0 ELSE m.den * ThresholdDen),
                       IF r.x # 0 THEN r.x ELSE splitX,
                       IF r.y # 0 THEN r.y ELSE splitY)

\* getSplitPoint: Panic on an empty grid (len(grid[0]) of an empty slice),
\* else the offsets the search from the maximum ends with
getSplitPoint(grid) ==
    IF grid.n = 0 THEN Panic
    ELSE LET mc == MaxCell(grid)
         IN RingSearch(grid, mc.maxX, mc.maxY, 1,
                       Val(mc.maxValue * ThresholdNum, grid.den * ThresholdDen),
                       0, 0)

\* the counter stays where it is
NextFrameSameRing(grid, f) ==
    LET r == RingPass(grid, f.maxX, f.maxY, f.counter, f.splitValue)
    IN IF ~r.itemFound
       THEN [f EXCEPT !.itemFound = FALSE,
                      !.splitX = Nudge(f.splitX, f.maxX),
                      !.splitY = Nudge(f.splitY, f.maxY)]
       ELSE [f EXCEPT !.itemFound = TRUE,
                      !.splitValue = LET m == mean(r.sum, r.count, grid.den)
                                     IN Val(m.num * ThresholdNum,
                                            IF m.nan THEN 0 ELSE m.den * ThresholdDen),
                      !.splitX = IF r.x # 0 THEN r.x ELSE @,
                      !.splitY = IF r.y # 0 THEN r.y ELSE @]

\* one iteration of the for loop of getSplitPoint on its local variables f
\* (maxX, maxY, counter, splitValue, itemFound, splitX, splitY): the
\* iteration that finds no item leaves the loop and makes the final step
NextFrame(grid, f) ==
    LET r == RingPass(grid, f.maxX, f.maxY, f.counter, f.splitValue)
    IN IF ~r.itemFound
       THEN [f EXCEPT !.itemFound = FALSE,
                      !.splitX = Nudge(f.splitX, f.maxX),
                      !.splitY = Nudge(f.splitY, f.maxY)]
       ELSE [f EXCEPT !.itemFound = TRUE,
                      !.counter = @ + 1,
                      !.splitValue = LET m == mean(r.sum, r.count, grid.den)
                                     IN Val(m.num * ThresholdNum,
                                            IF m.nan THEN 0 ELSE m.den * ThresholdDen),
                      !.splitX = IF r.x # 0 THEN r.x ELSE @,
                      !.splitY = IF r.y # 0 THEN r.y ELSE @]

(***************************************************************************)
(* Adaptive tree (ConvTree)                                                *)
(***************************************************************************)
\* a nil kernel: like an empty one, a slice of length 0
NilKernel == <<>>

\* every row as long as the first one, whatever the number of rows
checkKernelRowsAgree(kernel) ==
    /\ KernelSize(kernel) > 0
    /\ \A x \in DOMAIN kernel : DOMAIN kernel[x] = DOMAIN kernel[0]

\* checkKernel for the kernels of the model (functions on 0..k-1 of rows, a
\* row a function on 0..len-1): non-empty and every row as long as the number
\* of rows
checkKernel(kernel) ==
    /\ KernelSize(kernel) > 0
    /\ \A x \in DOMAIN kernel : Cardinality(DOMAIN kernel[x]) = KernelSize(kernel)

\* the right edge of a rectangle is not part of it
InRectHalfOpen(point, topLeft, bottomRight) ==
    /\ point.X >= topLeft.X /\ point.X < bottomRight.X
    /\ point.Y >= bottomRight.Y /\ point.Y <= topLeft.Y

\* a rectangle has no right and no upper edge
InRectNoUpperBound(point, topLeft, bottomRight) ==
    /\ point.X >= topLeft.X
    /\ point.Y >= bottomRight.Y

InRect(point, topLeft, bottomRight) ==
    /\ point.X >= topLeft.X /\ point.X <= bottomRight.X
    /\ point.Y >= bottomRight.Y /\ point.Y <= topLeft.Y

\* a node one level above MaxDepth does not split
checkSplitDepthOffByOne(tree) ==
    LET cond1 == /\ (tree.BottomRight.X - tree.TopLeft.X) > 2 * tree.MinXLength
                 /\ (tree.TopLeft.Y - tree.BottomRight.Y) > 2 * tree.MinYLength
        totalWeight == TotalWeight(tree.Points)
        cond2 == totalWeight > tree.MaxPoints /\ tree.Depth + 1 < tree.MaxDepth
    IN cond1 /\ cond2

\* a node whose weight equals MaxPoints splits
checkSplitAtLimit(tree) ==
    LET cond1 == /\ (tree.BottomRight.X - tree.TopLeft.X) > 2 * tree.MinXLength
                 /\ (tree.TopLeft.Y - tree.BottomRight.Y) > 2 * tree.MinYLength
        totalWeight == TotalWeight(tree.Points)
        cond2 == totalWeight >= tree.MaxPoints /\ tree.Depth < tree.MaxDepth
    IN cond1 /\ cond2

checkSplit(tree) ==
    LET cond1 == /\ (tree.BottomRight.X - tree.TopLeft.X) > 2 * tree.MinXLength
                 /\ (tree.TopLeft.Y - tree.BottomRight.Y) > 2 * tree.MinYLength
        totalWeight == TotalWeight(tree.Points)
        cond2 == totalWeight > tree.MaxPoints /\ tree.Depth < tree.MaxDepth
    IN cond1 /\ cond2

getNodeWeight(tree, xLeft, xRight, yTop, yBottom) ==
    LET in(point) == /\ point.X >= xLeft /\ point.X <= xRight
                     /\ point.Y >= yBottom /\ point.Y <= yTop
    IN TotalWeight(SelectSeq(tree.Points, in))

filterSplitPoints(tree, topLeft, bottomRight) ==
    LET in(point) == InRect(point, topLeft, bottomRight)
    IN SelectSeq(tree.Points, in)

\* the tags whose count is at least int(mean of the counts)
filterTagsAtLeast(tagValues) ==
    LET tags == DOMAIN tagValues
        splitValue == SumSet(tagValues, tags) \div Cardinality(tags)
    IN {k \in tags : tagValues[k] >= splitValue}

\* filterTags: the tags whose count v is greater than int(mean of the counts)
filterTags(tagValues) ==
    LET tags == DOMAIN tagValues
        splitValue == SumSet(tagValues, tags) \div Cardinality(tags)
    IN {k \in tags : tagValues[k] > splitValue}

\* getBaseline: count, per tag, the points that carry it; BaselineTags is
\* replaced only when some point carries a tag
getBaseline(tree) ==
    LET itemTags(item) == {item.Content[k] : k \in 1..Len(item.Content)}
        allTags == UNION {itemTags(tree.Points[i]) : i \in 1..Len(tree.Points)}
        tagValues == [t \in allTags |->
                        Cardinality({i \in 1..Len(tree.Points) : t \in itemTags(tree.Points[i])})]
    IN IF allTags # {}
       THEN [tree EXCEPT !.BaselineTags = filterTags(tagValues)]
       ELSE tree

\* the struct literal of a child in split; id is the identifier drawn for it
ChildNode(tree, id, topLeft, bottomRight) ==
    [ID |-> id,
     IsLeaf |-> TRUE,
     MaxPoints |-> tree.MaxPoints,
     MaxDepth |-> tree.MaxDepth,
     Depth |-> tree.Depth + 1,
     GridSize |-> tree.GridSize,
     ConvNum |-> tree.ConvNum,
     Kernel |-> tree.Kernel,
     Points |-> filterSplitPoints(tree, topLeft, bottomRight),
     MinXLength |-> tree.MinXLength,
     MinYLength |-> tree.MinYLength,
     TopLeft |-> topLeft,
     BottomRight |-> bottomRight,
     ChildTopLeft |-> Nil,
     ChildTopRight |-> Nil,
     ChildBottomLeft |-> Nil,
     ChildBottomRight |-> Nil,
     BaselineTags |-> {}]

\* the density grid of split: cell (i, j) holds the weight of the points in
\* its closed box
DensityGrid(tree) ==
    LET size == tree.GridSize
        xStep == Div(tree.BottomRight.X - tree.TopLeft.X, size)
        yStep == Div(tree.TopLeft.Y - tree.BottomRight.Y, size)
    IN MkGrid(size,
              [i \in 0..(size - 1) |-> [j \in 0..(size - 1) |->
                  getNodeWeight(tree,
                                tree.TopLeft.X + i * xStep,
                                tree.TopLeft.X + (i + 1) * xStep,
                                tree.BottomRight.Y + (j + 1) * yStep,
                                tree.BottomRight.Y + j * yStep)]],
              1, FALSE)

\* a cut that leaves fewer than minLength on a side is not moved
ClampCutNone(low, high, offset, minLength) == low + offset

\* the cut is moved away from the low side only
ClampCutLowOnly(low, high, offset, minLength) ==
    IF offset < minLength THEN low + minLength ELSE low + offset

\* the cut at low + offset on the axis from low to high, moved to leave at
\* least minLength on the low side and then on the high side
ClampCut(low, high, offset, minLength) ==
    LET cut == low + offset
        moved == IF cut - low < minLength THEN low + minLength ELSE cut
    IN IF high - moved < minLength THEN high - minLength ELSE moved

\* the grid split hands to getSplitPoint: the density grid normalised,
\* convolved ConvNum times and normalised again
ConvolvedGrid(tree) ==
    normalizeGrid(convPasses(normalizeGrid(DensityGrid(tree)), tree.Kernel, tree.ConvNum))

\* a split point on the border of a grid of n cells is replaced by the middle
MiddleIfBorder(n, k) == IF k < 1 \/ k >= n - 1 THEN n \div 2 ELSE k

\* the cut of split in coordinates for the split point sp of a grid of n
\* cells: sp, replaced by the middle cell when it is on the border, times the
\* cell size, then moved so that neither side is narrower than MinXLength /
\* MinYLength
CutAt(tree, n, sp) ==
    IF sp = Panic THEN Panic
    ELSE [xRight |-> ClampCut(tree.TopLeft.X, tree.BottomRight.X,
                              MiddleIfBorder(n, sp.x)
                                * Div(tree.BottomRight.X - tree.TopLeft.X, tree.GridSize),
                              tree.MinXLength),
          yBottom |-> ClampCut(tree.BottomRight.Y, tree.TopLeft.Y,
                               MiddleIfBorder(n, sp.y)
                                 * Div(tree.TopLeft.Y - tree.BottomRight.Y, tree.GridSize),
                               tree.MinYLength)]

\* the cut of split.  Panic when make([][]float64, GridSize) or getSplitPoint
\* panics.
SplitCut(tree) ==
    IF tree.GridSize < 0 THEN Panic
    ELSE LET convolved == ConvolvedGrid(tree)
         IN CutAt(tree, convolved.n, getSplitPoint(convolved))

\* the node keeps its points when it becomes internal
AsInternalKeepsPoints(tree, topLeft, topRight, bottomLeft, bottomRight) ==
    [tree EXCEPT !.ChildTopLeft = topLeft,
                 !.ChildTopRight = topRight,
                 !.ChildBottomLeft = bottomLeft,
                 !.ChildBottomRight = bottomRight,
                 !.IsLeaf = FALSE]

\* the node at the end of split: it holds the four children, is no leaf and
\* has no points
AsInternal(tree, topLeft, topRight, bottomLeft, bottomRight) ==
    [tree EXCEPT !.ChildTopLeft = topLeft,
                 !.ChildTopRight = topRight,
                 !.ChildBottomLeft = bottomLeft,
                 !.ChildBottomRight = bottomRight,
                 !.IsLeaf = FALSE,
                 !.Points = <<>>]

\* the rectangles of the four children over the cut, in the order split
\* builds them: top-left, top-right, bottom-left, bottom-right
ChildRects(tree, cut) ==
    << [TopLeft |-> tree.TopLeft,
        BottomRight |-> Coord(cut.xRight, cut.yBottom)],
       [TopLeft |-> Coord(cut.xRight, tree.TopLeft.Y),
        BottomRight |-> Coord(tree.BottomRight.X, cut.yBottom)],
       [TopLeft |-> Coord(tree.TopLeft.X, cut.yBottom),
        BottomRight |-> Coord(cut.xRight, tree.BottomRight.Y)],
       [TopLeft |-> Coord(cut.xRight, cut.yBottom),
        BottomRight |-> tree.BottomRight] >>

RECURSIVE split(_, _)

\* what split does with a child it has built: split it again when checkSplit
\* says so, otherwise give it the parent's BaselineTags and then its own
finishChild(tree, child) ==
    IF checkSplit(child) THEN split(child, child.ID)
    ELSE [tree |-> getBaseline([child EXCEPT !.BaselineTags = tree.BaselineTags]),
          ids |-> child.ID]

\* the children of split built one after the other over rects; done holds the
\* finished ones and ids the number of identifiers drawn so far.  With the
\* four children built the node becomes internal and drops its points.
RECURSIVE splitChildren(_, _, _, _)
splitChildren(tree, rects, ids, done) ==
    IF rects = <<>>
    THEN [tree |-> AsInternal(tree, done[1], done[2], done[3], done[4]), ids |-> ids]
    ELSE LET child == finishChild(tree, ChildNode(tree, ids + 1, Head(rects).TopLeft,
                                                  Head(rects).BottomRight))
         IN IF child = Panic THEN Panic
            ELSE splitChildren(tree, Tail(rects), child.ids, Append(done, child.tree))

\* split: the four children over the cut, each holding the parent's points of
\* its closed rectangle.  ids is the number of identifiers drawn so far
\* (uuid.New is modelled as a counter); the result is the node and the new
\* count, or Panic.
split(tree, ids) ==
    LET cut == SplitCut(tree)
    IN IF cut = Panic THEN Panic
       ELSE splitChildren(tree, ChildRects(tree, cut), ids, <<>>)

\* the result of a constructor that returns an error
Failed == [err |-> TRUE]

\* NewConvTree: Failed for a rejected region, Panic when the first split
\* panics, else the tree and the number of identifiers drawn
NewConvTree(topLeft, bottomRight, minXLength, minYLength, maxPoints, maxDepth, convNumber, gridSize, kernel, initPoints) ==
    IF topLeft.X >= bottomRight.X THEN Failed
    ELSE IF topLeft.Y <= bottomRight.Y THEN Failed
    ELSE
    LET tree == [ID |-> 1,
                 IsLeaf |-> TRUE,
                 MaxPoints |-> maxPoints,
                 MaxDepth |-> maxDepth,
                 Depth |-> 0,
                 GridSize |-> gridSize,
                 ConvNum |-> convNumber,
                 Kernel |-> IF checkKernel(kernel) THEN kernel ELSE DefaultKernel,
                 Points |-> initPoints,
                 MinXLength |-> minXLength,
                 MinYLength |-> minYLength,
                 TopLeft |-> topLeft,
                 BottomRight |-> bottomRight,
                 ChildTopLeft |-> Nil,
                 ChildTopRight |-> Nil,
                 ChildBottomLeft |-> Nil,
                 ChildBottomRight |-> Nil,
                 BaselineTags |-> {}]
    IN IF checkSplit(tree) THEN split(tree, 1)
       ELSE [tree |-> getBaseline(tree), ids |-> 1]

\* Insert splits a leaf that is due whatever allowSplit says
RECURSIVE InsertSplitsAlways(_, _, _, _)
InsertSplitsAlways(tree, point, allowSplit, ids) ==
    LET into(child) == InsertSplitsAlways(child, point, allowSplit, ids)
        holds(child) == InRect(point, child.TopLeft, child.BottomRight)
        put(field, r) ==
            IF r = Panic THEN Panic
            ELSE [tree |-> [tree EXCEPT ![field] = r.tree], ids |-> r.ids]
    IN IF ~tree.IsLeaf
       THEN IF holds(tree.ChildTopLeft)
            THEN put("ChildTopLeft", into(tree.ChildTopLeft))
            ELSE IF holds(tree.ChildTopRight)
            THEN put("ChildTopRight", into(tree.ChildTopRight))
            ELSE IF holds(tree.ChildBottomLeft)
            THEN put("ChildBottomLeft", into(tree.ChildBottomLeft))
            ELSE IF holds(tree.ChildBottomRight)
            THEN put("ChildBottomRight", into(tree.ChildBottomRight))
            ELSE [tree |-> tree, ids |-> ids]
       ELSE LET added == [tree EXCEPT !.Points = Append(tree.Points, point)]
            IN IF checkSplit(added) THEN split(added, ids)
               ELSE [tree |-> added, ids |-> ids]

\* Insert: an internal node hands the point to the first child, in the order
\* top-left, top-right, bottom-left, bottom-right, whose closed rectangle
\* holds it, and does nothing when none does; a leaf appends it and splits
\* when allowed and due.  Panic when that split panics.
RECURSIVE Insert(_, _, _, _)
Insert(tree, point, allowSplit, ids) ==
    LET into(child) == Insert(child, point, allowSplit, ids)
        holds(child) == InRect(point, child.TopLeft, child.BottomRight)
        put(field, r) ==
            IF r = Panic THEN Panic
            ELSE [tree |-> [tree EXCEPT ![field] = r.tree], ids |-> r.ids]
    IN IF ~tree.IsLeaf
       THEN IF holds(tree.ChildTopLeft)
            THEN put("ChildTopLeft", into(tree.ChildTopLeft))
            ELSE IF holds(tree.ChildTopRight)
            THEN put("ChildTopRight", into(tree.ChildTopRight))
            ELSE IF holds(tree.ChildBottomLeft)
            THEN put("ChildBottomLeft", into(tree.ChildBottomLeft))
            ELSE IF holds(tree.ChildBottomRight)
            THEN put("ChildBottomRight", into(tree.ChildBottomRight))
            ELSE [tree |-> tree, ids |-> ids]
       ELSE LET added == [tree EXCEPT !.Points = Append(tree.Points, point)]
            IN IF allowSplit /\ checkSplit(added) THEN split(added, ids)
               ELSE [tree |-> added, ids |-> ids]

\* Check splits without asking checkSplit
CheckAlways(tree, ids) == split(tree, ids)

\* Check: split the node when checkSplit says so
Check(tree, ids) ==
    IF checkSplit(tree) THEN split(tree, ids) ELSE [tree |-> tree, ids |-> ids]

\* Clear forgets the top-right child
RECURSIVE ClearSkipsTopRight(_)
ClearSkipsTopRight(tree) ==
    LET clr(child) == IF child # Nil THEN ClearSkipsTopRight(child) ELSE child
    IN [tree EXCEPT !.Points = <<>>,
                    !.ChildBottomLeft = clr(tree.ChildBottomLeft),
                    !.ChildBottomRight = clr(tree.ChildBottomRight),
                    !.ChildTopLeft = clr(tree.ChildTopLeft)]

\* Clear: drop the points of the node and of every descendant
RECURSIVE Clear(_)
Clear(tree) ==
    LET clr(child) == IF child # Nil THEN Clear(child) ELSE child
    IN [tree EXCEPT !.Points = <<>>,
                    !.ChildBottomLeft = clr(tree.ChildBottomLeft),
                    !.ChildBottomRight = clr(tree.ChildBottomRight),
                    !.ChildTopLeft = clr(tree.ChildTopLeft),
                    !.ChildTopRight = clr(tree.ChildTopRight)]

(***************************************************************************)
(* Uniform tree (QuadTree).  Its rectangles have TopLeft.Y below           *)
(* BottomRight.Y.                                                          *)
(***************************************************************************)
QuadInRect(point, topLeft, bottomRight) ==
    /\ point.X >= topLeft.X /\ point.X <= bottomRight.X
    /\ point.Y >= topLeft.Y /\ point.Y <= bottomRight.Y

QuadCheckSplit(tree) ==
    LET cond1 == /\ (tree.BottomRight.X - tree.TopLeft.X) > 2 * tree.minXLength
                 /\ (tree.BottomRight.Y - tree.TopLeft.Y) > 2 * tree.minYLength
        total == TotalWeight(tree.Points)
        cond2 == total > tree.maxPoints /\ tree.Depth < tree.maxDepth
    IN cond1 /\ cond2

QuadFilterSplitPoints(tree, topLeft, bottomRight) ==
    LET in(point) == QuadInRect(point, topLeft, bottomRight)
    IN SelectSeq(tree.Points, in)

\* the struct literal of a child in QuadTree.split
QuadChildNode(tree, id, topLeft, bottomRight) ==
    [ID |-> id,
     IsLeaf |-> TRUE,
     maxPoints |-> tree.maxPoints,
     maxDepth |-> tree.maxDepth,
     Depth |-> tree.Depth + 1,
     splitSteps |-> tree.splitSteps,
     Points |-> QuadFilterSplitPoints(tree, topLeft, bottomRight),
     TopLeft |-> topLeft,
     BottomRight |-> bottomRight,
     minXLength |-> tree.minXLength,
     minYLength |-> tree.minYLength,
     ChildTopLeft |-> Nil,
     ChildTopRight |-> Nil,
     ChildBottomLeft |-> Nil,
     ChildBottomRight |-> Nil]

\* QuadTree.split: four children over the midpoint; ids counts the
\* identifiers drawn, as in split
RECURSIVE QuadSplit(_, _)
QuadSplit(tree, ids) ==
    LET xRight == tree.TopLeft.X + Div(tree.BottomRight.X - tree.TopLeft.X, 2)
        yBottom == tree.TopLeft.Y + Div(tree.BottomRight.Y - tree.TopLeft.Y, 2)
        finish(child) ==
            IF QuadCheckSplit(child) THEN QuadSplit(child, child.ID)
            ELSE [tree |-> child, ids |-> child.ID]
        topLeft == finish(QuadChildNode(tree, ids + 1, tree.TopLeft,
                                        Coord(xRight, yBottom)))
        topRight == finish(QuadChildNode(tree, topLeft.ids + 1,
                                         Coord(xRight, tree.TopLeft.Y),
                                         Coord(tree.BottomRight.X, yBottom)))
        bottomLeft == finish(QuadChildNode(tree, topRight.ids + 1,
                                           Coord(tree.TopLeft.X, yBottom),
                                           Coord(xRight, tree.BottomRight.Y)))
        bottomRight == finish(QuadChildNode(tree, bottomLeft.ids + 1,
                                            Coord(xRight, yBottom), tree.BottomRight))
    IN [tree |-> [tree EXCEPT !.ChildTopLeft = topLeft.tree,
                              !.ChildTopRight = topRight.tree,
                              !.ChildBottomLeft = bottomLeft.tree,
                              !.ChildBottomRight = bottomRight.tree,
                              !.IsLeaf = FALSE,
                              !.Points = <<>>],
        ids |-> bottomRight.ids]

\* NewQuadTree: the struct literal does not set IsLeaf, so the root starts
\* with IsLeaf false
NewQuadTree(topLeft, bottomRight, minXLength, minYLength, maxPoints, maxDepth, initPoints) ==
    IF topLeft.X >= bottomRight.X THEN Failed
    ELSE IF topLeft.Y >= bottomRight.Y THEN Failed
    ELSE
    LET tree == [ID |-> 1,
                 IsLeaf |-> FALSE,
                 maxPoints |-> maxPoints,
                 maxDepth |-> maxDepth,
                 Depth |-> 0,
                 splitSteps |-> 10,
                 Points |-> initPoints,
                 TopLeft |-> topLeft,
                 BottomRight |-> bottomRight,
                 minXLength |-> minXLength,
                 minYLength |-> minYLength,
                 ChildTopLeft |-> Nil,
                 ChildTopRight |-> Nil,
                 ChildBottomLeft |-> Nil,
                 ChildBottomRight |-> Nil]
    IN IF QuadCheckSplit(tree) THEN QuadSplit(tree, 1)
       ELSE [tree |-> tree, ids |-> 1]

\* QuadTree.Insert: a node with IsLeaf false reads the rectangles of its
\* children, a nil pointer dereference (Panic) when it has none
RECURSIVE QuadInsert(_, _, _)
QuadInsert(tree, point, ids) ==
    LET into(child) == QuadInsert(child, point, ids)
        holds(child) == QuadInRect(point, child.TopLeft, child.BottomRight)
        put(field, r) ==
            IF r = Panic THEN Panic
            ELSE [tree |-> [tree EXCEPT ![field] = r.tree], ids |-> r.ids]
    IN IF ~tree.IsLeaf
       THEN IF tree.ChildTopLeft = Nil THEN Panic
            ELSE IF holds(tree.ChildTopLeft)
            THEN put("ChildTopLeft", into(tree.ChildTopLeft))
            ELSE IF holds(tree.ChildTopRight)
            THEN put("ChildTopRight", into(tree.ChildTopRight))
            ELSE IF holds(tree.ChildBottomLeft)
            THEN put("ChildBottomLeft", into(tree.ChildBottomLeft))
            ELSE IF holds(tree.ChildBottomRight)
            THEN put("ChildBottomRight", into(tree.ChildBottomRight))
            ELSE [tree |-> tree, ids |-> ids]
       ELSE LET added == [tree EXCEPT !.Points = Append(tree.Points, point)]
            IN IF QuadCheckSplit(added) THEN QuadSplit(added, ids)
               ELSE [tree |-> added, ids |-> ids]

(***************************************************************************)
(* Observations on trees                                                   *)
(***************************************************************************)
Children(tree) ==
    <<tree.ChildTopLeft, tree.ChildTopRight, tree.ChildBottomLeft, tree.ChildBottomRight>>

\* the nodes of a tree
RECURSIVE NodeSet(_)
NodeSet(tree) ==
    IF tree = Nil THEN {}
    ELSE {tree} \cup NodeSet(tree.ChildTopLeft) \cup NodeSet(tree.ChildTopRight)
                \cup NodeSet(tree.ChildBottomLeft) \cup NodeSet(tree.ChildBottomRight)

LeafSet(tree) == {n \in NodeSet(tree) : n.IsLeaf}

\* the weight stored in the leaves of a tree
RECURSIVE LeafWeight(_)
LeafWeight(tree) ==
    IF tree = Nil THEN 0
    ELSE (IF tree.IsLeaf THEN TotalWeight(tree.Points) ELSE 0)
         + LeafWeight(tree.ChildTopLeft) + LeafWeight(tree.ChildTopRight)
         + LeafWeight(tree.ChildBottomLeft) + LeafWeight(tree.ChildBottomRight)

\* the shape of a tree: rectangles, depths, leaf flags and children, without
\* the points
RECURSIVE Shape(_)
Shape(tree) ==
    IF tree = Nil THEN Nil
    ELSE [IsLeaf |-> tree.IsLeaf, TopLeft |-> tree.TopLeft,
          BottomRight |-> tree.BottomRight, Depth |-> tree.Depth,
          ChildTopLeft |-> Shape(tree.ChildTopLeft),
          ChildTopRight |-> Shape(tree.ChildTopRight),
          ChildBottomLeft |-> Shape(tree.ChildBottomLeft),
          ChildBottomRight |-> Shape(tree.ChildBottomRight)]

\* the shape of a tree with the identifiers of its nodes
RECURSIVE Skeleton(_)
Skeleton(tree) ==
    IF tree = Nil THEN Nil
    ELSE [ID |-> tree.ID, IsLeaf |-> tree.IsLeaf, TopLeft |-> tree.TopLeft,
          BottomRight |-> tree.BottomRight, Depth |-> tree.Depth,
          ChildTopLeft |-> Skeleton(tree.ChildTopLeft),
          ChildTopRight |-> Skeleton(tree.ChildTopRight),
          ChildBottomLeft |-> Skeleton(tree.ChildBottomLeft),
          ChildBottomRight |-> Skeleton(tree.ChildBottomRight)]

(***************************************************************************)
(* Inputs                                                                  *)
(***************************************************************************)
\* number of initial points, of Insert calls and of Check calls explored
MaxInit == 2
MaxInserts == 1
MaxChecks == 1

Pool ==
    {Point(8, 56, 1, <<"a">>), Point(32, 32, 2, <<>>),
     Point(56, 8, 1, <<"a", "b", "b">>), Point(80, 80, 1, <<>>)}

InitSeqs == UNION {[1..n -> Pool] : n \in 0..MaxInit}

Regions ==
    {[TopLeft |-> Coord(0, 64), BottomRight |-> Coord(64, 0)],
     [TopLeft |-> Coord(0, 0), BottomRight |-> Coord(64, 64)],
     [TopLeft |-> Coord(64, 64), BottomRight |-> Coord(0, 0)],
     [TopLeft |-> Coord(0, 64), BottomRight |-> Coord(0, 0)],
     [TopLeft |-> Coord(0, 64), BottomRight |-> Coord(64, 64)]}

\* kernels handed to NewConvTree, entries in halves: none, two rows of three,
\* three rows of which one is short, a single 1.0, and 3 x 3 of 0.5
Kernels ==
    {NilKernel,
     [x \in 0..1 |-> [y \in 0..2 |-> 1]],
     [x \in 0..2 |-> [y \in 0..(IF x = 1 THEN 1 ELSE 2) |-> 1]],
     [x \in 0..0 |-> [y \in 0..0 |-> 2]],
     [x \in 0..2 |-> [y \in 0..2 |-> 1]]}

BaseConfig ==
    [minXLength |-> 4, minYLength |-> 4, maxPoints |-> 1, maxDepth |-> 2,
     gridSize |-> 4, convNumber |-> 2, kernel |-> NilKernel]

\* the base configuration and its variations in one parameter
Configs ==
    {BaseConfig,
     [BaseConfig EXCEPT !.minXLength = 0, !.minYLength = 0],
     [BaseConfig EXCEPT !.minXLength = 12, !.minYLength = 12],
     [BaseConfig EXCEPT !.minXLength = 68]}
    \cup {[BaseConfig EXCEPT !.maxPoints = m] : m \in {0 - 1, 0, 2}}
    \cup {[BaseConfig EXCEPT !.maxDepth = d] : d \in {0, 1}}
    \cup {[BaseConfig EXCEPT !.gridSize = g] : g \in {0, 2}}
    \cup {[BaseConfig EXCEPT !.convNumber = c] : c \in {0, 1}}
    \cup {[BaseConfig EXCEPT !.kernel = k] : k \in Kernels}

(***************************************************************************)
(* State                                                                   *)
(***************************************************************************)
VARIABLES
    tree,     \* the ConvTree the program holds, Nil when it holds none
    qtree,    \* the QuadTree the program holds, Nil when it holds none
    uuids,    \* number of node identifiers drawn from uuid.New
    call,     \* the last call made: operation, arguments and outcome
    ghost,    \* history of the calls made since construction
    frame     \* the local variables of a grid function that runs step by
              \* step and the value it returns, Nil for the tree operations

vars == <<tree, qtree, uuids, call, ghost, frame>>

Call(op, arg, outcome) == [op |-> op, arg |-> arg, outcome |-> outcome]

Outcome(r) == IF r = Panic THEN "panic" ELSE IF r = Failed THEN "error" ELSE "ok"

\* ghost.supplied: weight of the points handed to the constructor and Insert
\* ghost.plain:    no Check and no Clear was called
\* ghost.forced:   every Insert was called with allowSplit = true
\* ghost.inserted: number of Insert calls
\* ghost.checked:  number of Check calls
\* ghost.built:    shape of the tree the constructor returned
\* ghost.phase:    progress of the rebuild protocol Clear, Insert of every
\*                 initial point with allowSplit = false, Check
\* ghost.pending:  initial points the rebuild has not inserted yet
Init ==
    /\ tree = Nil
    /\ qtree = Nil
    /\ uuids = 0
    /\ call = Call("none", Nil, "ok")
    /\ ghost = [supplied |-> 0, plain |-> TRUE, forced |-> TRUE, inserted |-> 0,
                checked |-> 0, built |-> Nil, phase |-> "none", pending |-> <<>>]
    /\ frame = Nil

Alive == call.op # "none" /\ call.outcome = "ok"

\* s without its element number k
Remove(s, k) == SubSeq(s, 1, k - 1) \o SubSeq(s, k + 1, Len(s))

Create ==
    /\ call.op = "none"
    /\ \E region \in Regions, cfg \in Configs, initPoints \in InitSeqs :
         \E r \in {NewConvTree(region.TopLeft, region.BottomRight, cfg.minXLength,
                                cfg.minYLength, cfg.maxPoints, cfg.maxDepth,
                                cfg.convNumber, cfg.gridSize, cfg.kernel, initPoints)} :
            /\ call' = Call("NewConvTree",
                            [region |-> region, cfg |-> cfg, initPoints |-> initPoints],
                            Outcome(r))
            /\ tree' = IF Outcome(r) = "ok" THEN r.tree ELSE Nil
            /\ uuids' = IF Outcome(r) = "ok" THEN r.ids ELSE uuids
            /\ ghost' = [ghost EXCEPT
                           !.supplied = TotalWeight(initPoints),
                           !.built = IF Outcome(r) = "ok" THEN Shape(r.tree) ELSE Nil,
                           !.phase = "built",
                           !.pending = initPoints]
    /\ UNCHANGED <<qtree, frame>>

\* Insert on the root.  When the split it starts panics, the leaf keeps the
\* appended point.
InsertStep ==
    /\ Alive /\ tree # Nil
    /\ ghost.inserted < MaxInserts
    /\ \E point \in Pool, allowSplit \in BOOLEAN :
         \E r \in {Insert(tree, point, allowSplit, uuids)},
            replay \in {{k \in 1..Len(ghost.pending) : ghost.pending[k] = point}} :
            /\ call' = Call("Insert", [point |-> point, allowSplit |-> allowSplit],
                            IF r = Panic THEN "panic" ELSE "ok")
            /\ tree' = IF r = Panic THEN Insert(tree, point, FALSE, uuids).tree
                       ELSE r.tree
            /\ uuids' = IF r = Panic THEN uuids ELSE r.ids
            /\ ghost' = [ghost EXCEPT
                           !.supplied = @ + point.Weight,
                           !.forced = @ /\ allowSplit,
                           !.inserted = @ + 1,
                           !.phase = IF @ = "cleared" /\ ~allowSplit /\ replay # {}
                                     THEN "cleared" ELSE "off",
                           !.pending = IF replay # {}
                                       THEN Remove(@, CHOOSE k \in replay : TRUE)
                                       ELSE @]
    /\ UNCHANGED <<qtree, frame>>

CheckStep ==
    /\ Alive /\ tree # Nil
    /\ ghost.checked < MaxChecks
    /\ \E r \in {Check(tree, uuids)} :
          /\ call' = Call("Check", Nil, IF r = Panic THEN "panic" ELSE "ok")
          /\ tree' = IF r = Panic THEN tree ELSE r.tree
          /\ uuids' = IF r = Panic THEN uuids ELSE r.ids
    /\ ghost' = [ghost EXCEPT
                   !.plain = FALSE,
                   !.checked = @ + 1,
                   !.phase = IF @ = "cleared" /\ ghost.pending = <<>>
                             THEN "rebuilt" ELSE "off"]
    /\ UNCHANGED <<qtree, frame>>

ClearStep ==
    /\ Alive /\ tree # Nil
    /\ call' = Call("Clear", Nil, "ok")
    /\ tree' = Clear(tree)
    /\ ghost' = [ghost EXCEPT
                   !.plain = FALSE,
                   !.phase = IF @ = "built" THEN "cleared" ELSE "off"]
    /\ UNCHANGED <<qtree, uuids, frame>>

QuadCreate ==
    /\ call.op = "none"
    /\ \E region \in Regions, cfg \in Configs, initPoints \in InitSeqs :
         \E r \in {NewQuadTree(region.TopLeft, region.BottomRight, cfg.minXLength,
                                cfg.minYLength, cfg.maxPoints, cfg.maxDepth, initPoints)} :
            /\ call' = Call("NewQuadTree",
                            [region |-> region,
                             cfg |-> [cfg EXCEPT !.gridSize = 0, !.convNumber = 0,
                                              !.kernel = NilKernel],
                             initPoints |-> initPoints],
                            Outcome(r))
            /\ qtree' = IF Outcome(r) = "ok" THEN r.tree ELSE Nil
            /\ uuids' = IF Outcome(r) = "ok" THEN r.ids ELSE uuids
            /\ ghost' = [ghost EXCEPT !.supplied = TotalWeight(initPoints)]
    /\ UNCHANGED <<tree, frame>>

QuadInsertStep ==
    /\ Alive /\ qtree # Nil
    /\ ghost.inserted < MaxInserts
    /\ \E point \in Pool :
         \E r \in {QuadInsert(qtree, point, uuids)} :
            /\ call' = Call("QuadInsert", [point |-> point],
                            IF r = Panic THEN "panic" ELSE "ok")
            /\ qtree' = IF r = Panic THEN qtree ELSE r.tree
            /\ uuids' = IF r = Panic THEN uuids ELSE r.ids
            /\ ghost' = [ghost EXCEPT !.supplied = @ + point.Weight,
                                      !.inserted = @ + 1]
    /\ UNCHANGED <<tree, frame>>

Next ==
    \/ Create
    \/ InsertStep
    \/ CheckStep
    \/ ClearStep
    \/ QuadCreate
    \/ QuadInsertStep

Spec == Init /\ [][Next]_vars

(***************************************************************************)
(* The grid functions on their own: convolve applied to one input, and     *)
(* getSplitPoint run one loop iteration at a time.                         *)
(***************************************************************************)
\* largest grid and kernel, largest stride and largest padding explored
MaxGridSize == 4
MaxStride == 2
MaxPadding == 2

Cells(n) == (0..(n - 1)) \X (0..(n - 1))

\* an n x n grid whose cell (i, j) holds i + j
RampGrid(n) == MkGrid(n, [i \in 0..(n - 1) |-> [j \in 0..(n - 1) |-> i + j]], 1, FALSE)

\* a k x k kernel of 0.5
FlatKernel(k) == [x \in 0..(k - 1) |-> [y \in 0..(k - 1) |-> 1]]

ConvInputs ==
    {[grid |-> RampGrid(n), kernel |-> FlatKernel(k), stride |-> s, padding |-> p] :
        n \in 0..MaxGridSize, k \in 0..MaxGridSize, s \in 0..MaxStride, p \in 0..MaxPadding}

\* a normalised n x n grid: 1.0 in the cell peak, 5/6 in the cells hot, 0.0
\* elsewhere
PeakGrid(n, peak, hot) ==
    MkGrid(n,
           [i \in 0..(n - 1) |-> [j \in 0..(n - 1) |->
               IF <<i, j>> = peak THEN 6 ELSE IF <<i, j>> \in hot THEN 5 ELSE 0]],
           6, FALSE)

\* the grids handed to getSplitPoint: the empty grid, grids of zeros, grids
\* of NaN, and grids with a peak and up to two more cells above the threshold
SearchGrids ==
    {MkGrid(0, <<>>, 1, FALSE)}
    \cup {MkGrid(n, [i \in 0..(n - 1) |-> [j \in 0..(n - 1) |-> 0]], 1, nan) :
             n \in 1..MaxGridSize, nan \in BOOLEAN}
    \cup UNION {{PeakGrid(n, peak, {a, b}) : peak \in Cells(n), a \in Cells(n), b \in Cells(n)} :
                   n \in 1..MaxGridSize}

\* convolve, from call to return; frame holds what it returns
ConvolveCall ==
    /\ call.op = "none"
    /\ \E a \in ConvInputs :
          \E r \in {convolve(a.grid, a.kernel, a.stride, a.padding)} :
             /\ frame' = r
             /\ call' = Call("convolve", a,
                             IF r = Panic THEN "panic"
                             ELSE IF r.err THEN "error" ELSE "ok")
    /\ UNCHANGED <<tree, qtree, uuids, ghost>>

\* getSplitPoint up to its for loop: the search for the maximum and the
\* initial values of the loop's variables
SearchBegin ==
    /\ call.op = "none"
    /\ \E grid \in SearchGrids :
          \E mc \in {MaxCell(grid)} :
             /\ frame' = [maxX |-> mc.maxX, maxY |-> mc.maxY, counter |-> 1,
                          splitValue |-> Val(mc.maxValue * ThresholdNum,
                                             grid.den * ThresholdDen),
                          itemFound |-> FALSE, splitX |-> 0, splitY |-> 0]
             /\ call' = Call("getSplitPoint", [grid |-> grid], "running")
    /\ UNCHANGED <<tree, qtree, uuids, ghost>>

\* one iteration of the for loop of getSplitPoint; on an empty grid it
\* panics at len(grid[0]).  After the iteration that finds no item the
\* function returns splitX, splitY.
RingStep ==
    /\ call.op = "getSplitPoint" /\ call.outcome = "running"
    /\ IF call.arg.grid.n = 0
       THEN /\ call' = [call EXCEPT !.outcome = "panic"]
            /\ frame' = frame
       ELSE /\ frame' = NextFrame(call.arg.grid, frame)
            /\ call' = [call EXCEPT !.outcome = IF frame'.itemFound THEN "running"
                                                ELSE "ok"]
    /\ UNCHANGED <<tree, qtree, uuids, ghost>>

GridNext ==
    \/ ConvolveCall
    \/ SearchBegin
    \/ RingStep

\* a function that was called keeps running until it returns or panics
GridSpec == Init /\ [][GridNext]_vars /\ WF_vars(RingStep)

(***************************************************************************)
(* Claims                                                                  *)
(***************************************************************************)
Created == call.op = "NewConvTree" /\ call.outcome = "ok"

ValidRegion(region) ==
    /\ region.TopLeft.X < region.BottomRight.X
    /\ region.TopLeft.Y > region.BottomRight.Y

Width(node) == node.BottomRight.X - node.TopLeft.X
Height(node) == node.TopLeft.Y - node.BottomRight.Y

NoChildren(node) == \A k \in 1..4 : Children(node)[k] = Nil
AllChildren(node) == \A k \in 1..4 : Children(node)[k] # Nil

LeafState(node) == node.IsLeaf /\ NoChildren(node)
InternalState(node) == ~node.IsLeaf /\ AllChildren(node) /\ node.Points = <<>>

InternalIDs(t) == {n.ID : n \in {m \in NodeSet(t) : InternalState(m)}}
OtherIDs(t) == {n.ID : n \in {m \in NodeSet(t) : ~InternalState(m)}}

\* C1: after create and inserts only, the weight stored in the leaves of the
\* adaptive tree equals the weight of all the points supplied: no point is
\* lost and none is stored twice.
C1_WeightConserved ==
    (tree # Nil /\ ghost.plain) => LeafWeight(tree) = ghost.supplied

\* C2: every node of the adaptive tree is either a leaf (IsLeaf, no children)
\* or internal (not IsLeaf, four children, no points), never both and never
\* neither, and a node that is internal stays internal: in the next state the
\* node with the same identifier, if the tree still holds it, is internal.
C2_LeafXorInternal ==
    /\ [](\A n \in NodeSet(tree) : LeafState(n) # InternalState(n))
    /\ [][InternalIDs(tree) \cap OtherIDs(tree') = {}]_vars

\* an insert has turned a leaf into an internal node and the tree holds
\* leaves with points next to internal nodes
C2_Witness ==
    /\ call.op = "Insert" /\ call.outcome = "ok"
    /\ \E n \in NodeSet(tree) : InternalState(n) /\ n.Depth = 1
    /\ \E n \in NodeSet(tree) : LeafState(n) /\ n.Points # <<>>

\* C3: after create and after inserts that were all made with allowSplit =
\* true, no leaf is wider than 2*minWidth and higher than 2*minHeight and
\* heavier than maxPointWeight and above maxDepth.
C3_NoLeafShouldSplit ==
    (tree # Nil /\ Alive /\ ghost.forced) =>
        \A n \in LeafSet(tree) :
            ~(/\ Width(n) > 2 * n.MinXLength
              /\ Height(n) > 2 * n.MinYLength
              /\ TotalWeight(n.Points) > n.MaxPoints
              /\ n.Depth < n.MaxDepth)

\* an insert with allowSplit = true has split a leaf below the root
C3_Witness ==
    /\ call.op = "Insert" /\ call.outcome = "ok" /\ call.arg.allowSplit
    /\ ghost.forced
    /\ \E n \in NodeSet(tree) : ~n.IsLeaf /\ n.Depth = 1
    /\ LeafWeight(tree) > tree.MaxPoints

\* C4 as claimed: every leaf of the tree returned by create is at least
\* minWidth wide and minHeight high.
C4_Original ==
    Created => \A n \in LeafSet(tree) :
                  Width(n) >= n.MinXLength /\ Height(n) >= n.MinYLength

\* C4 as amended: every leaf of the tree returned by create other than an
\* unsplit root is at least minWidth wide and minHeight high.
C4_LeafMinSize ==
    Created => \A n \in LeafSet(tree) :
                  n.Depth > 0 => (Width(n) >= n.MinXLength /\ Height(n) >= n.MinYLength)

\* create has split the root and a leaf is exactly minWidth wide: the cut was
\* moved to keep the minimum
C4_Witness ==
    /\ Created
    /\ tree.MinXLength > 0
    /\ \E n \in LeafSet(tree) : n.Depth > 0 /\ Width(n) = n.MinXLength

\* C5: Clear leaves every leaf without points and changes nothing else: the
\* nodes, their rectangles, depths, leaf flags and children are the same
\* before and after.
C5_ClearKeepsShape ==
    [][call'.op = "Clear" =>
         /\ Skeleton(tree') = Skeleton(tree)
         /\ \A n \in LeafSet(tree') : n.Points = <<>>]_vars

\* Clear was called on a tree with internal nodes whose leaves held points
C5_Witness ==
    /\ call.op = "Clear"
    /\ ghost.phase = "cleared"
    /\ ~tree.IsLeaf
    /\ \E k \in 1..Len(ghost.pending) :
          InRect(ghost.pending[k], tree.TopLeft, tree.BottomRight)

C7_ErrorIffInvalidRegion ==
    call.op = "NewConvTree" =>
        call.outcome = IF ValidRegion(call.arg.region) THEN "ok" ELSE "error"

\* C8: NewQuadTree succeeds for every region with TopLeft.X < BottomRight.X
\* and TopLeft.Y > BottomRight.Y and fails when TopLeft.Y <= BottomRight.Y.
C8_QuadSameRegionRule ==
    call.op = "NewQuadTree" =>
        /\ ValidRegion(call.arg.region) => call.outcome = "ok"
        /\ call.arg.region.TopLeft.Y <= call.arg.region.BottomRight.Y
              => call.outcome = "error"

\* C9: Insert on a uniform tree whose root has no children completes and
\* appends the point to the root's points, or splits the root.
C9_QuadInsertOnUnsplitRoot ==
    [][(call'.op = "QuadInsert" /\ NoChildren(qtree)) =>
         /\ call'.outcome = "ok"
         /\ \/ qtree'.Points = Append(qtree.Points, call'.arg.point)
            \/ AllChildren(qtree')]_vars

\* C10 as claimed: NewConvTree over a valid region with no initial points
\* returns a single leaf, whatever the other arguments are.
C10_Original ==
    (/\ call.op = "NewConvTree"
     /\ ValidRegion(call.arg.region)
     /\ call.arg.initPoints = <<>>)
        => (call.outcome = "ok" /\ tree.IsLeaf /\ NoChildren(tree))

\* C10 as amended: the same, for maxPointWeight >= 0.
C10_EmptyIsSingleLeaf ==
    (/\ call.op = "NewConvTree"
     /\ ValidRegion(call.arg.region)
     /\ call.arg.initPoints = <<>>
     /\ call.arg.cfg.maxPoints >= 0)
        => (call.outcome = "ok" /\ tree.IsLeaf /\ NoChildren(tree))

\* NewConvTree returned a tree for no points, a weight limit of zero and
\* a region and depth limit that allow a split
C10_Witness ==
    /\ Created
    /\ call.arg.initPoints = <<>>
    /\ call.arg.cfg.maxPoints = 0
    /\ call.arg.cfg.maxDepth > 0
    /\ Width(tree) > 2 * tree.MinXLength

\* the closed rectangle of a node holds the point
Inside(point, node) ==
    /\ point.X >= node.TopLeft.X /\ point.X <= node.BottomRight.X
    /\ point.Y >= node.BottomRight.Y /\ point.Y <= node.TopLeft.Y

\* the node of a tree with an identifier
NodeOf(t, id) == CHOOSE n \in NodeSet(t) : n.ID = id

\* how often the leaves of a tree hold a point
Stored(t, point) ==
    SumSet([n \in LeafSet(t) |->
               Cardinality({k \in 1..Len(n.Points) : n.Points[k] = point})],
           LeafSet(t))

\* the children of a node whose rectangle holds the point, as numbers in the
\* order top-left, top-right, bottom-left, bottom-right
Hits(node, point) == {k \in 1..4 : Inside(point, Children(node)[k])}

FirstHit(node, point) ==
    CHOOSE k \in Hits(node, point) : \A j \in Hits(node, point) : k <= j

\* C11: an insert that reaches an internal node changes only the first child,
\* in the order top-left, top-right, bottom-left, bottom-right, whose closed
\* rectangle holds the point, and that child then stores the point; the other
\* children, also those whose rectangle holds the point, stay as they are.
\* The root, when internal, passes on every point one of its children holds.
C11_FirstChildOnly ==
    [][(call'.op = "Insert" /\ call'.outcome = "ok") =>
         /\ (~tree.IsLeaf /\ Hits(tree, call'.arg.point) # {}) => tree' # tree
         /\ \A n \in NodeSet(tree) :
               (~n.IsLeaf /\ NodeOf(tree', n.ID) # n) =>
                  /\ Hits(n, call'.arg.point) # {}
                  /\ \A j \in 1..4 \ {FirstHit(n, call'.arg.point)} :
                        Children(NodeOf(tree', n.ID))[j] = Children(n)[j]
                  /\ Stored(Children(NodeOf(tree', n.ID))[FirstHit(n, call'.arg.point)],
                            call'.arg.point)
                       > Stored(Children(n)[FirstHit(n, call'.arg.point)],
                                call'.arg.point)]_vars

\* a point on an edge shared by several children was inserted into a root
\* that was internal since create
C11_Witness ==
    /\ call.op = "Insert" /\ call.outcome = "ok"
    /\ ghost.built # Nil /\ ~ghost.built.IsLeaf
    /\ ghost.plain
    /\ Cardinality(Hits(tree, call.arg.point)) >= 2

Tags(point) == {point.Content[k] : k \in 1..Len(point.Content)}

LeafTags(node) == UNION {Tags(node.Points[k]) : k \in 1..Len(node.Points)}

\* the number of points of a node that carry the tag
TagCount(node, tag) ==
    Cardinality({k \in 1..Len(node.Points) : tag \in Tags(node.Points[k])})

\* the tags of a node whose count is above the mean of the counts:
\* count > sum / number of tags, without rounding
AboveMean(node) ==
    {t \in LeafTags(node) :
        TagCount(node, t) * Cardinality(LeafTags(node))
           > SumSet([u \in LeafTags(node) |-> TagCount(node, u)], LeafTags(node))}

\* C12: a leaf made by this step (by create or by a split) that holds a
\* tagged point has as BaselineTags exactly the tags carried by more of its
\* points than the mean number of points per tag.
C12_BaselineAboveMean ==
    [][\A n \in LeafSet(tree') :
          (n.ID > uuids /\ LeafTags(n) # {}) => n.BaselineTags = AboveMean(n)]_vars

\* create returned a leaf with two tags of which one is above a mean that is
\* no whole number
C12_Witness ==
    /\ Created
    /\ \E n \in LeafSet(tree) :
          /\ Cardinality(LeafTags(n)) = 2
          /\ Cardinality(n.BaselineTags) = 1
          /\ \E t \in LeafTags(n) : TagCount(n, t) = 2
          /\ \E t \in LeafTags(n) : TagCount(n, t) = 1

\* C13: a leaf made by this step (by create or by a split, also a split
\* started by an insert) that holds no tagged point has empty BaselineTags.
C13_UntaggedLeafEmptyBaseline ==
    [][\A n \in LeafSet(tree') :
          (n.ID > uuids /\ LeafTags(n) = {}) => n.BaselineTags = {}]_vars

\* the built-in kernel, entries in halves: centre 1.0, all others 0.5
BuiltinKernel ==
    [x \in 0..2 |-> [y \in 0..2 |-> IF x = 1 /\ y = 1 THEN KernelDen ELSE KernelDen \div 2]]

SquareKernel(kernel) ==
    /\ DOMAIN kernel # {}
    /\ \A x \in DOMAIN kernel :
          Cardinality(DOMAIN kernel[x]) = Cardinality(DOMAIN kernel)

\* C14: every node of the tree create returns carries the supplied kernel
\* when that is non-empty and square, and otherwise the built-in kernel.
C14_KernelChoice ==
    Created =>
        \A n \in NodeSet(tree) :
            n.Kernel = IF SquareKernel(call.arg.cfg.kernel)
                       THEN call.arg.cfg.kernel ELSE BuiltinKernel

\* create was given a kernel with as many rows as there are columns in the
\* first row but with one shorter row, and split the root
C14_Witness ==
    /\ Created
    /\ ~tree.IsLeaf
    /\ Cardinality(DOMAIN call.arg.cfg.kernel) = 3
    /\ ~SquareKernel(call.arg.cfg.kernel)

\* C15: every node made by a split is at least MinXLength wide and
\* MinYLength high.
C15_ChildMinSize ==
    tree # Nil =>
        \A n \in NodeSet(tree) :
            n.Depth > 0 => (Width(n) >= n.MinXLength /\ Height(n) >= n.MinYLength)

\* the root was split by a cut that was moved back from the right to leave
\* exactly MinXLength
C15_Witness ==
    /\ tree # Nil /\ Alive
    /\ ~tree.IsLeaf
    /\ tree.MinXLength > 0
    /\ Width(tree.ChildTopRight) = tree.MinXLength
    /\ Width(tree.ChildTopLeft) > tree.MinXLength

\* C16: convolve on an N x N grid with a K x K kernel returns an error when
\* stride < 1, padding < 1 or N < K, and for every other input returns a grid
\* of floor((N - K + 2*padding) / stride) + 1 cells per axis.
C16_ConvolveErrorsAndSize ==
    call.op = "convolve" =>
        IF \/ call.arg.stride < 1
           \/ call.arg.padding < 1
           \/ call.arg.grid.n < Cardinality(DOMAIN call.arg.kernel)
        THEN call.outcome = "error"
        ELSE /\ call.outcome = "ok"
             /\ frame.grid.n = ((call.arg.grid.n - Cardinality(DOMAIN call.arg.kernel)
                                   + 2 * call.arg.padding) \div call.arg.stride) + 1
             /\ DOMAIN frame.grid.cells = 0..(frame.grid.n - 1)
             /\ \A i \in DOMAIN frame.grid.cells :
                   DOMAIN frame.grid.cells[i] = 0..(frame.grid.n - 1)

\* the ring at column (or row) k around the maximum, at the offset and with
\* the threshold of the frame, holds a cell above the threshold
ColumnHit(grid, f, k) ==
    /\ k >= 0 /\ k < grid.n
    /\ \E j \in (f.maxY - f.counter)..(f.maxY + f.counter) :
          j >= 0 /\ j < grid.n /\ CellGreater(grid, k, j, f.splitValue)

RowHit(grid, f, k) ==
    /\ k >= 0 /\ k < grid.n
    /\ \E j \in (f.maxX - f.counter)..(f.maxX + f.counter) :
          j >= 0 /\ j < grid.n /\ CellGreater(grid, j, k, f.splitValue)

\* v is the one of a and b that is farther from centre, either when they are
\* equally far
IsFarther(v, a, b, centre) ==
    IF Abs(a - centre) > Abs(b - centre) THEN v = a
    ELSE IF Abs(a - centre) < Abs(b - centre) THEN v = b
    ELSE v \in {a, b}

\* C17: an iteration of the ring search that finds a cell above the threshold
\* in column maxX - counter and in column maxX + counter sets splitX to the
\* one of the two columns that is farther from the centre column n / 2, and
\* likewise splitY for the rows maxY - counter and maxY + counter.
C17_FartherFromCentre ==
    [][(call.op = "getSplitPoint" /\ call.outcome = "running" /\ call.arg.grid.n > 0) =>
         /\ (/\ ColumnHit(call.arg.grid, frame, frame.maxX - frame.counter)
             /\ ColumnHit(call.arg.grid, frame, frame.maxX + frame.counter))
               => IsFarther(frame'.splitX, frame.maxX - frame.counter,
                            frame.maxX + frame.counter, call.arg.grid.n \div 2)
         /\ (/\ RowHit(call.arg.grid, frame, frame.maxY - frame.counter)
             /\ RowHit(call.arg.grid, frame, frame.maxY + frame.counter))
               => IsFarther(frame'.splitY, frame.maxY - frame.counter,
                            frame.maxY + frame.counter, call.arg.grid.n \div 2)]_vars

\* a leaf of t gains the point at the end of its points in t2 and the other
\* leaves keep their points
OneLeafGains(t, t2, point) ==
    \E n \in LeafSet(t) :
        /\ NodeOf(t2, n.ID).Points = Append(n.Points, point)
        /\ \A m \in LeafSet(t) \ {n} : NodeOf(t2, m.ID).Points = m.Points

\* C18 as claimed: Insert with allowSplit = false keeps the nodes, their
\* rectangles, depths, leaf flags and children, draws no identifier, and
\* appends the point to the points of exactly one leaf.
C18_Original ==
    [][(call'.op = "Insert" /\ ~call'.arg.allowSplit) =>
         /\ Skeleton(tree') = Skeleton(tree)
         /\ uuids' = uuids
         /\ OneLeafGains(tree, tree', call'.arg.point)]_vars

\* C18 as amended: the same for a point inside the root's rectangle or a
\* root that is a leaf; for every other point the tree stays as it is.
C18_NoSplitKeepsShape ==
    [][(call'.op = "Insert" /\ ~call'.arg.allowSplit) =>
         /\ Skeleton(tree') = Skeleton(tree)
         /\ uuids' = uuids
         /\ (tree.IsLeaf \/ Inside(call'.arg.point, tree))
               => OneLeafGains(tree, tree', call'.arg.point)
         /\ ~(tree.IsLeaf \/ Inside(call'.arg.point, tree)) => tree' = tree]_vars

\* an Insert with allowSplit = false has left a leaf that is wide, high and
\* heavy enough and not too deep to split
C18_Witness ==
    /\ call.op = "Insert" /\ ~call.arg.allowSplit
    /\ \E n \in LeafSet(tree) :
          /\ call.arg.point \in {n.Points[k] : k \in 1..Len(n.Points)}
          /\ Width(n) > 2 * n.MinXLength
          /\ Height(n) > 2 * n.MinYLength
          /\ TotalWeight(n.Points) > n.MaxPoints
          /\ n.Depth < n.MaxDepth

\* the closed rectangle of a node of the uniform tree holds the point
QuadInside(point, node) ==
    /\ point.X >= node.TopLeft.X /\ point.X <= node.BottomRight.X
    /\ point.Y >= node.TopLeft.Y /\ point.Y <= node.BottomRight.Y

\* C19: Insert of a point outside the rectangle of a root that is internal
\* changes nothing and completes, in the adaptive and in the uniform tree.
C19_OutsidePointDropped ==
    [][/\ (call'.op = "Insert" /\ ~tree.IsLeaf /\ ~Inside(call'.arg.point, tree)) =>
            (tree' = tree /\ uuids' = uuids /\ call'.outcome = "ok")
       /\ (call'.op = "QuadInsert" /\ AllChildren(qtree)
             /\ ~QuadInside(call'.arg.point, qtree)) =>
            (qtree' = qtree /\ uuids' = uuids /\ call'.outcome = "ok")]_vars

\* a point outside the root was inserted, with leave to split, into a tree
\* whose root was internal since create and whose leaves hold points
C19_Witness ==
    /\ call.op = "Insert" /\ call.arg.allowSplit
    /\ ghost.built # Nil /\ ~ghost.built.IsLeaf
    /\ ghost.plain
    /\ ~Inside(call.arg.point, tree)
    /\ LeafWeight(tree) > 0

\* C20: getSplitPoint returns on every grid with at least one cell: the
\* counter grows by one with every iteration that goes on, it never exceeds
\* the size of the grid, and the call ends.
C20_SearchTerminates ==
    /\ []((call.op = "getSplitPoint" /\ call.arg.grid.n >= 1) => <>(call.outcome = "ok"))
    /\ [][(call.outcome = "running" /\ call'.outcome = "running")
             => frame'.counter = frame.counter + 1]_vars
    /\ []((call.outcome = "running" /\ call.arg.grid.n >= 1)
             => frame.counter <= call.arg.grid.n)

\* the search has returned after two iterations that found cells above the
\* threshold, with the result of getSplitPoint
C20_Witness ==
    /\ call.op = "getSplitPoint" /\ call.outcome = "ok"
    /\ frame.counter >= 3
    /\ [x |-> frame.splitX, y |-> frame.splitY] = getSplitPoint(call.arg.grid)

====
